---------------------------- MODULE Spec2Model ----------------------------
(***************************************************************************)
(* A model of MatchForge's job matching engine                             *)
(* (src/app/services/job_matcher.py): the lazily loaded embedding model,   *)
(* MatchWeights, the six component scorers, compute_match_score and        *)
(* rank_jobs.                                                              *)
(* With it, of the job fetcher (src/app/services/job_fetcher.py): the      *)
(* Redis token bucket of RateLimiter, fetch_jobs with its cache, and       *)
(* _deduplicate.                                                           *)
(*                                                                         *)
(* Representation of Python values                                         *)
(*   str            a sequence of one-character strings, <<"p", "y">>      *)
(*   list[str]      a sequence of such sequences                           *)
(*   Optional[int]  an integer, NoInt (-1) standing for None / a missing   *)
(*                  key (dict.get returns None for both)                   *)
(*   float          an exact rational <<n, d>> with d > 0; Python's floats *)
(*                  are rounded binary fractions, so a value that is an    *)
(*                  exact half here may round either way there             *)
(*   a dict         a record with one field per key the code reads; a      *)
(*                  missing key holds the Absent value of its type         *)
(***************************************************************************)
EXTENDS Integers, Sequences, FiniteSets, TLC

VARIABLES
    model,            \* the module global _model: NoModel or Loaded
    now,              \* datetime.now(), in whole days
    embedding,        \* which pretrained similarity function the package holds
    default_weights,  \* the module global DEFAULT_WEIGHTS
    weights,          \* JobMatcher.weights (self.weights)
    profile,          \* the caller's user_profile dict
    jobs,             \* the caller's jobs list
    out,              \* what the last call returned or raised, with its arguments
                      \* and what the embedding package did during it
    loads,            \* how many SentenceTransformer objects have been constructed
    threads,          \* where each thread stands inside get_model
    redis,            \* the Redis keys of the job fetcher: the rate limit buckets
                      \* and the cache entry of one query
    tasks,            \* where each coroutine stands inside RateLimiter.acquire
    granted,          \* per source, the acquire calls that returned True since
                      \* its bucket key last expired
    stale,            \* the job list last written to the cache entry
    reply             \* what the last call of the job fetcher returned

matcher_vars == <<model, now, embedding, default_weights, weights, profile, jobs, out,
                  loads, threads>>

fetcher_vars == <<redis, tasks, granted, stale, reply>>

vars == <<model, now, embedding, default_weights, weights, profile, jobs, out,
          loads, threads, redis, tasks, granted, stale, reply>>

---------------------------------------------------------------------------
(* Python values *)

NoInt == -1

\* A str-typed slot holding None, and a missing key of a str-typed slot.
NoneStr == <<"None">>

AbsentStr == <<"Absent">>

\* A missing key of a list-typed slot.
AbsentList == <<AbsentStr>>

IsStr(s) == s # NoneStr /\ s # AbsentStr

\* dict.get(key, default)
Get(v, absent, default) == IF v = absent THEN default ELSE v

\* str.lower() on one character of the alphabet the inputs are drawn from
LowerChar(c) ==
    CASE c = "P" -> "p"
      [] c = "A" -> "a"
      [] c = "D" -> "d"
      [] c = "S" -> "s"
      [] c = "Q" -> "q"
      [] OTHER -> c

Lower(s) == [i \in 1..Len(s) |-> LowerChar(s[i])]

\* Python's  sub in s  on strings
Contains(sub, s) ==
    \E i \in 0..(Len(s) - Len(sub)) : SubSeq(s, i + 1, i + Len(sub)) = sub

\* " ".join(list)
RECURSIVE Join(_)
Join(list) ==
    IF list = <<>> THEN <<>>
    ELSE IF Len(list) = 1 THEN list[1]
    ELSE list[1] \o <<" ">> \o Join(Tail(list))

\* not s.strip()
IsBlank(s) == \A i \in 1..Len(s) : s[i] = " "

AllStr(list) == \A i \in 1..Len(list) : IsStr(list[i])

---------------------------------------------------------------------------
(* Exact rationals for Python floats.  The operations are functions, which  *)
(* TLC applies to values.                                                  *)

Gcd[a \in Nat, b \in Nat] == IF b = 0 THEN a ELSE Gcd[b, a % b]

Abs(x) == IF x < 0 THEN -x ELSE x

Reduce[n \in Int, d \in Nat, g \in Nat] == <<n \div g, d \div g>>

\* n / d in lowest terms, d > 0
Rat[n \in Int, d \in Nat] == Reduce[n, d, Gcd[Abs(n), d]]

Q == Int \X Nat

RAdd[a \in Q, b \in Q] == Rat[a[1] * b[2] + b[1] * a[2], a[2] * b[2]]

RSub[a \in Q, b \in Q] == Rat[a[1] * b[2] - b[1] * a[2], a[2] * b[2]]

RMul[a \in Q, b \in Q] == Rat[a[1] * b[1], a[2] * b[2]]

RLeq[a \in Q, b \in Q] == a[1] * b[2] <= b[1] * a[2]

RMax[a \in Q, b \in Q] == IF RLeq[b, a] THEN a ELSE b

RMin[a \in Q, b \in Q] == IF RLeq[a, b] THEN a ELSE b

Zero == Rat[0, 1]

One == Rat[1, 1]

\* Python's round(x): to the nearest integer, a tie to the even one
Round[x \in Q] ==
    LET q == x[1] \div x[2]
        r == x[1] % x[2]
    IN  IF 2 * r < x[2] THEN q
        ELSE IF 2 * r > x[2] THEN q + 1
        ELSE IF q % 2 = 0 THEN q ELSE q + 1

Round100[x \in Q] == Round[<<100 * x[1], x[2]>>]

\* e evaluated once, then F of its value
Let(e, F(_)) == CHOOSE y \in {F(x) : x \in {e}} : TRUE

---------------------------------------------------------------------------
(* The embedding model: get_model and what the sentence-transformers       *)
(* package computes.  The package is not part of the repository: a loaded  *)
(* model is a deterministic function of the two texts, one of a family     *)
(* indexed by `embedding`, and every call into the package may raise.      *)

NoModel == "None"

Loaded == "SentenceTransformer"

\* what the package does when it is called during one call of the matcher:
\*   "ok"             the model loads and encodes
\*   "load_raises"    the import or the constructor raises
\*   "encode_raises"  model.encode raises
\*   "zero_norm"      encode returns a vector of norm 0: numpy divides 0.0 by
\*                    0.0 to nan with a warning, no exception
EnvOutcomes == {"ok", "load_raises", "encode_raises", "zero_norm"}

\* get_model(): the value of _model after the call, and whether it raised.
\* A model already loaded is returned without touching the package.
get_model(m, e) ==
    IF m # NoModel THEN [raised |-> FALSE, model |-> m]
    ELSE IF e = "load_raises" THEN [raised |-> TRUE, model |-> NoModel]
    ELSE [raised |-> FALSE, model |-> Loaded]

\* the SentenceTransformer objects a process may construct one after another;
\* `Loaded` is the first
Instances ==
    <<Loaded, "SentenceTransformer 2", "SentenceTransformer 3", "SentenceTransformer 4">>

\* loads after a call that found _model = m and left it as after
LoadsAfter(n, m, after) == IF m = NoModel /\ after # NoModel THEN n + 1 ELSE n

\* cosine similarities a model may give, in [-1, 1]
SimValues == <<Rat[-1, 1], Rat[-1, 2], Zero, Rat[1, 2], One>>

Embeddings == 0..(Len(SimValues) - 1)

\* np.dot(e0, e1) / (norm(e0) * norm(e1)) of model.encode([a, b])
Similarity(emb, a, b) ==
    SimValues[((emb + Len(a) + 2 * Len(b)) % Len(SimValues)) + 1]

\* a scorer's outcome: a float, or an exception leaving the scorer; with the
\* value of _model after it
Returns(v, m) == [raised |-> FALSE, v |-> v, model |-> m]

Raises(m) == [raised |-> TRUE, v |-> Zero, model |-> m]

---------------------------------------------------------------------------
(* The component scorers *)

\* the keyword score without its base of 0.3
KeywordNoBase(user_skills, job_text) ==
    IF user_skills = <<>> \/ job_text = <<>> THEN Rat[1, 2]
    ELSE
        LET job_lower == Lower(job_text)
            matches == Cardinality({i \in 1..Len(user_skills) :
                                      Contains(Lower(user_skills[i]), job_lower)})
        IN  RMin[One, RMul[Rat[matches, Len(user_skills)], Rat[7, 10]]]

\* the keyword score with the skills compared as they are spelled
KeywordCaseSensitive(user_skills, job_text) ==
    IF user_skills = <<>> \/ job_text = <<>> THEN Rat[1, 2]
    ELSE
        LET matches == Cardinality({i \in 1..Len(user_skills) :
                                      Contains(user_skills[i], job_text)})
        IN  RMin[One, RAdd[Rat[3, 10],
                           RMul[Rat[matches, Len(user_skills)], Rat[7, 10]]]]

_keyword_match(user_skills, job_text) ==
    IF user_skills = <<>> \/ job_text = <<>> THEN Rat[1, 2]
    ELSE
        LET job_lower == Lower(job_text)
            matches == Cardinality({i \in 1..Len(user_skills) :
                                      Contains(Lower(user_skills[i]), job_lower)})
        IN  RMin[One, RAdd[Rat[3, 10],
                           RMul[Rat[matches, Len(user_skills)], Rat[7, 10]]]]

\* the try block shared by the skills and the title scorer:
\* max(0, (similarity + 1) / 2), or `fallback` when anything in it raises;
\* max(0, nan) is 0, its first argument, as nan > 0 is false
EmbeddingScore(a, b, fallback, m, e, emb) ==
    LET g == get_model(m, e) IN
    IF g.raised THEN Returns(fallback, g.model)
    ELSE IF e = "encode_raises" THEN Returns(fallback, g.model)
    ELSE IF e = "zero_norm" THEN Returns(Zero, g.model)
    ELSE Returns(RMax[Zero, RMul[RAdd[Similarity(emb, a, b), One], Rat[1, 2]]],
                 g.model)

_compute_skills_match(user_skills, job_description, required_skills, m, e, emb) ==
    IF user_skills = <<>> THEN Returns(Rat[1, 2], m)
    ELSE IF ~AllStr(user_skills) THEN Raises(m)          \* " ".join(user_skills)
    ELSE IF job_description = NoneStr THEN Raises(m)     \* None += str, None.strip()
    ELSE IF ~AllStr(required_skills) THEN Raises(m)      \* " ".join(required_skills)
    ELSE
        LET user_text == Join(user_skills)
            job_text == IF required_skills # <<>>
                        THEN job_description \o <<" ">> \o Join(required_skills)
                        ELSE job_description
        IN  IF IsBlank(job_text) THEN Returns(Rat[1, 2], m)
            ELSE EmbeddingScore(user_text, job_text,
                                _keyword_match(user_skills, job_text), m, e, emb)

\* x or d, for an Optional[int]
IntOr(x, d) == IF x = NoInt \/ x = 0 THEN d ELSE x

\* the experience scorer with a penalty of 0.10 for each missing year
ExperienceGentlePenalty(user_years, job_min, job_max) ==
    IF job_min = NoInt /\ job_max = NoInt THEN Rat[7, 10]
    ELSE
        LET jmin == IF job_min = NoInt \/ job_min = 0 THEN 0 ELSE job_min
            jmax == IF job_max = NoInt \/ job_max = 0 THEN 30 ELSE job_max
            years == IF user_years = NoInt THEN 0 ELSE user_years
        IN  IF jmin <= years /\ years <= jmax THEN One
            ELSE IF years < jmin
                 THEN RMax[Rat[2, 10], RSub[One, RMul[Rat[jmin - years, 1], Rat[10, 100]]]]
            ELSE IF years - jmax <= 3 THEN Rat[8, 10]
            ELSE IF years - jmax <= 5 THEN Rat[6, 10]
            ELSE Rat[5, 10]

\* the experience scorer with a perfect fit only strictly inside the range
ExperienceExclusive(user_years, job_min, job_max) ==
    IF job_min = NoInt /\ job_max = NoInt THEN Rat[7, 10]
    ELSE
        LET jmin == IF job_min = NoInt \/ job_min = 0 THEN 0 ELSE job_min
            jmax == IF job_max = NoInt \/ job_max = 0 THEN 30 ELSE job_max
            years == IF user_years = NoInt THEN 0 ELSE user_years
        IN  IF jmin < years /\ years < jmax THEN One
            ELSE IF years < jmin
                 THEN RMax[Rat[2, 10], RSub[One, RMul[Rat[jmin - years, 1], Rat[15, 100]]]]
            ELSE IF years - jmax <= 3 THEN Rat[8, 10]
            ELSE IF years - jmax <= 5 THEN Rat[6, 10]
            ELSE Rat[5, 10]

\* the experience scorer without the floor max(0.2, .) under an under-qualified
\* gap: a wide gap takes it below zero
ExperienceUnclamped(user_years, job_min, job_max) ==
    IF job_min = NoInt /\ job_max = NoInt THEN Rat[7, 10]
    ELSE
        LET jmin == IF job_min = NoInt \/ job_min = 0 THEN 0 ELSE job_min
            jmax == IF job_max = NoInt \/ job_max = 0 THEN 30 ELSE job_max
            years == IF user_years = NoInt THEN 0 ELSE user_years
        IN  IF jmin <= years /\ years <= jmax THEN One
            ELSE IF years < jmin
                 THEN RSub[One, RMul[Rat[jmin - years, 1], Rat[15, 100]]]
            ELSE IF years - jmax <= 3 THEN Rat[8, 10]
            ELSE IF years - jmax <= 5 THEN Rat[6, 10]
            ELSE Rat[5, 10]

_compute_experience_match(user_years, job_min, job_max) ==
    IF job_min = NoInt /\ job_max = NoInt THEN Rat[7, 10]
    ELSE
        LET jmin == IntOr(job_min, 0)
            jmax == IntOr(job_max, 30)
            years == IntOr(user_years, 0)
        IN  IF jmin <= years /\ years <= jmax THEN One
            ELSE IF years < jmin
                 THEN RMax[Rat[2, 10], RSub[One, RMul[Rat[jmin - years, 1], Rat[15, 100]]]]
            ELSE IF years - jmax <= 3 THEN Rat[8, 10]
            ELSE IF years - jmax <= 5 THEN Rat[6, 10]
            ELSE Rat[5, 10]

\* the salary scorer with the neutral score kept for the case that all four
\* bounds are absent
SalaryNeutralAllAbsent(user_min, user_max, job_min, job_max) ==
    IF user_min = NoInt /\ user_max = NoInt /\ job_min = NoInt /\ job_max = NoInt
    THEN Rat[7, 10]
    ELSE
        LET umin == IntOr(user_min, 0)
            umax == IntOr(user_max, 500000)
            jmin == IntOr(job_min, 0)
            jmax == IntOr(job_max, 500000)
            overlap_start == IF umin >= jmin THEN umin ELSE jmin
            overlap_end == IF umax <= jmax THEN umax ELSE jmax
        IN  IF overlap_start > overlap_end
            THEN IF jmax < umin
                 THEN RMax[Rat[2, 10], RSub[One, Rat[umin - jmax, umin]]]
                 ELSE Rat[5, 10]
            ELSE
                LET user_range == IF umax - umin = 0 THEN 1 ELSE umax - umin
                    overlap == overlap_end - overlap_start
                IN  RMin[One, RAdd[Rat[5, 10], RMul[Rat[overlap, user_range], Rat[5, 10]]]]

\* the salary scorer without the floor of 0.2 under the proportional penalty
SalaryNoFloor(user_min, user_max, job_min, job_max) ==
    IF (user_min = NoInt /\ user_max = NoInt) \/ (job_min = NoInt /\ job_max = NoInt)
    THEN Rat[7, 10]
    ELSE
        LET umin == IntOr(user_min, 0)
            umax == IntOr(user_max, 500000)
            jmin == IntOr(job_min, 0)
            jmax == IntOr(job_max, 500000)
            overlap_start == IF umin >= jmin THEN umin ELSE jmin
            overlap_end == IF umax <= jmax THEN umax ELSE jmax
        IN  IF overlap_start > overlap_end
            THEN IF jmax < umin
                 THEN RSub[One, Rat[umin - jmax, umin]]
                 ELSE Rat[5, 10]
            ELSE
                LET user_range == IF umax - umin = 0 THEN 1 ELSE umax - umin
                    overlap == overlap_end - overlap_start
                IN  RMin[One, RAdd[Rat[5, 10], RMul[Rat[overlap, user_range], Rat[5, 10]]]]

_compute_salary_match(user_min, user_max, job_min, job_max) ==
    IF (user_min = NoInt /\ user_max = NoInt) \/ (job_min = NoInt /\ job_max = NoInt)
    THEN Rat[7, 10]
    ELSE
        LET umin == IntOr(user_min, 0)
            umax == IntOr(user_max, 500000)
            jmin == IntOr(job_min, 0)
            jmax == IntOr(job_max, 500000)
            overlap_start == IF umin >= jmin THEN umin ELSE jmin
            overlap_end == IF umax <= jmax THEN umax ELSE jmax
        IN  IF overlap_start > overlap_end
            THEN IF jmax < umin
                 THEN RMax[Rat[2, 10], RSub[One, Rat[umin - jmax, umin]]]
                 ELSE Rat[5, 10]
            ELSE
                LET user_range == IF umax - umin = 0 THEN 1 ELSE umax - umin
                    overlap == overlap_end - overlap_start
                IN  RMin[One, RAdd[Rat[5, 10], RMul[Rat[overlap, user_range], Rat[5, 10]]]]

\* the outcome of  for x in list: if hit(x): return 1.0  followed by `miss`:
\* the first entry that is a hit or is not a str decides
FirstOf(list, hits, miss, m) ==
    LET bad == {i \in 1..Len(list) : ~IsStr(list[i])}
        stop == hits \cup bad
    IN  IF stop = {} THEN Returns(miss, m)
        ELSE LET first == CHOOSE i \in stop : \A j \in stop : i <= j
             IN  IF first \in bad THEN Raises(m) ELSE Returns(One, m)

\* the location scorer with the list of preferred locations looked at first:
\* a literal match wins over the remote preference
LocationListFirst(preferred_locations, remote_preference, job_location, job_remote, m) ==
    LET pref == IF remote_preference \in {"Absent", "None", ""} THEN "any"
                ELSE remote_preference
        locs == Get(preferred_locations, AbsentList, <<>>)
        listed == locs # <<>> /\ job_location \notin {AbsentStr, NoneStr, <<>>}
    IN  IF listed /\ \E i \in 1..Len(locs) :
                        IsStr(locs[i]) /\ Contains(Lower(locs[i]), Lower(job_location))
        THEN Returns(One, m)
        ELSE IF pref = "remote"
        THEN IF job_remote = "True" THEN Returns(One, m) ELSE Returns(Rat[3, 10], m)
        ELSE IF pref = "onsite" /\ job_remote = "True" THEN Returns(Rat[5, 10], m)
        ELSE IF listed THEN Returns(Rat[5, 10], m)
        ELSE Returns(Rat[7, 10], m)

_compute_location_match(preferred_locations, remote_preference, job_location, job_remote, m) ==
    LET pref == IF remote_preference \in {"Absent", "None", ""} THEN "any"
                ELSE remote_preference
        locs == Get(preferred_locations, AbsentList, <<>>)
    IN  IF pref = "remote"
        THEN IF job_remote = "True" THEN Returns(One, m) ELSE Returns(Rat[3, 10], m)
        ELSE IF pref = "onsite" /\ job_remote = "True" THEN Returns(Rat[5, 10], m)
        ELSE IF locs # <<>> /\ job_location \notin {AbsentStr, NoneStr, <<>>}
        THEN LET job_loc_lower == Lower(job_location)
             IN  FirstOf(locs,
                         {i \in 1..Len(locs) :
                            IsStr(locs[i]) /\ Contains(Lower(locs[i]), job_loc_lower)},
                         Rat[5, 10], m)
        ELSE Returns(Rat[7, 10], m)

\* the title scorer without the substring loop: every pair of titles goes to
\* the embedding model
TitleEmbeddingFirst(target_titles, job_title, m, e, emb) ==
    IF target_titles = <<>> \/ job_title \in {NoneStr, <<>>} THEN Returns(Rat[7, 10], m)
    ELSE IF ~AllStr(target_titles) THEN Raises(m)
    ELSE EmbeddingScore(Join(target_titles), job_title, Rat[5, 10], m, e, emb)

_compute_title_match(target_titles, job_title, m, e, emb) ==
    IF target_titles = <<>> \/ job_title \in {NoneStr, <<>>} THEN Returns(Rat[7, 10], m)
    ELSE
        LET job_lower == Lower(job_title)
            hit == FirstOf(target_titles,
                           {i \in 1..Len(target_titles) :
                              /\ IsStr(target_titles[i])
                              /\ \/ Contains(Lower(target_titles[i]), job_lower)
                                 \/ Contains(job_lower, Lower(target_titles[i]))},
                           Zero, m)
        IN  IF hit.raised \/ hit.v = One THEN hit
            ELSE EmbeddingScore(Join(target_titles), job_title, Rat[5, 10], m, e, emb)

---------------------------------------------------------------------------
(* Recency.  A posted_date is [kind, day, frac]: the calendar day it names  *)
(* and the form it is written in                                           *)
(*   "absent"     None, a missing key or ''                                *)
(*   "date"       2024-01-15                                               *)
(*   "datetime"   2024-01-15T10:30:00                                      *)
(*   "datetimeZ"  2024-01-15T10:30:00Z                                     *)
(*   "fracZ"      2024-01-15T10:30:00.123Z, with `frac` fractional digits  *)
(*   "frac"       2024-01-15T10:30:00.123456, no Z                         *)
(*   "offset"     2024-01-15T10:30:00+00:00                                *)
(*   "garbage"    any other string                                         *)
(*   "naive"      a datetime object without tzinfo                         *)
(*   "aware"      a datetime object with tzinfo                            *)

\* len(posted_date) for the string forms
DateLen(d) ==
    CASE d.kind = "date" -> 10
      [] d.kind = "datetime" -> 19
      [] d.kind = "datetimeZ" -> 19 + 1
      [] d.kind = "fracZ" -> 19 + 1 + d.frac + 1
      [] d.kind = "frac" -> 19 + 1 + d.frac
      [] d.kind = "offset" -> 19 + 6
      [] OTHER -> 7

\* the formats tried in order on posted_date[:26]; TRUE when one parses
Strptime26(d) ==
    \/ d.kind = "date"                       \* "%Y-%m-%d"
    \/ d.kind = "datetime"                   \* "%Y-%m-%dT%H:%M:%S"
    \/ d.kind = "datetimeZ"                  \* "%Y-%m-%dT%H:%M:%SZ"
    \/ /\ d.kind = "fracZ"                   \* "%Y-%m-%dT%H:%M:%S.%fZ"
       /\ d.frac \in 1..6
       /\ DateLen(d) <= 26                   \* the Z is still there after [:26]

\* the scorer with the first bucket closed one day early
RecencyThreeDaysOut(posted_date, today) ==
    IF posted_date.kind = "absent" THEN Rat[5, 10]
    ELSE IF posted_date.kind \notin {"naive", "aware"} /\ ~Strptime26(posted_date)
         THEN Rat[5, 10]
    ELSE IF posted_date.kind = "aware" THEN Rat[5, 10]
    ELSE
        LET days_old == today - posted_date.day
        IN  IF days_old < 3 THEN One
            ELSE IF days_old <= 7 THEN Rat[9, 10]
            ELSE IF days_old <= 14 THEN Rat[7, 10]
            ELSE IF days_old <= 30 THEN Rat[5, 10]
            ELSE Rat[3, 10]

_compute_recency_score(posted_date, today) ==
    IF posted_date.kind = "absent" THEN Rat[5, 10]
    ELSE IF posted_date.kind \notin {"naive", "aware"} /\ ~Strptime26(posted_date)
         THEN Rat[5, 10]
    ELSE IF posted_date.kind = "aware" THEN Rat[5, 10]   \* TypeError, caught
    ELSE
        LET days_old == today - posted_date.day
        IN  IF days_old <= 3 THEN One
            ELSE IF days_old <= 7 THEN Rat[9, 10]
            ELSE IF days_old <= 14 THEN Rat[7, 10]
            ELSE IF days_old <= 30 THEN Rat[5, 10]
            ELSE Rat[3, 10]

---------------------------------------------------------------------------
(* MatchWeights, in hundredths: 35 is 0.35 *)

MatchWeights(s, e, sa, l, t, r) ==
    [skills_semantic |-> s, experience_level |-> e, salary_fit |-> sa,
     location_match |-> l, title_similarity |-> t, recency |-> r]

\* six nearly equal weights, which also sum to 1.0
MatchWeightsEven == MatchWeights(17, 17, 17, 17, 16, 16)

\* MatchWeights(): the dataclass's field defaults
MatchWeightsDefault == MatchWeights(35, 20, 15, 15, 10, 5)

\* weights=None
NoWeights == MatchWeights(NoInt, NoInt, NoInt, NoInt, NoInt, NoInt)

\* other or w: the priority of  weights or other  turned round
WeightsOrOther(w, other) ==
    IF other # MatchWeights(NoInt, NoInt, NoInt, NoInt, NoInt, NoInt) THEN other ELSE w

\* weights or other: a dataclass instance is always truthy
WeightsOr(w, other) == IF w = NoWeights THEN other ELSE w

WeightSum(w) ==
    w.skills_semantic + w.experience_level + w.salary_fit
        + w.location_match + w.title_similarity + w.recency

Hundredths(w) == Rat[w, 100]

---------------------------------------------------------------------------
(* compute_match_score *)

NoScore == [total_score |-> NoInt,
            components |-> [skills |-> NoInt, experience |-> NoInt, salary |-> NoInt,
                            location |-> NoInt, title |-> NoInt, recency |-> NoInt],
            weights_used |-> NoWeights]

\* a call's outcome: the MatchScore returned or an exception, and _model after
\* it; raw is the local `scores`, what the six scorers returned, in the order
\* skills, experience, salary, location, title, recency
ScoreReturns(s, raw, m) == [raised |-> FALSE, scores |-> s, raw |-> raw, model |-> m]

ScoreRaises(m) == [raised |-> TRUE, scores |-> NoScore, raw |-> <<>>, model |-> m]

\* lines 108-122: the weighted total and the MatchScore of the six scores
\* sc = <<skills, experience, salary, location, title, recency>>
WeightedScore(w, sc) ==
    [total_score |->
         Round100[RAdd[RAdd[RAdd[RMul[sc[1], Hundredths(w.skills_semantic)],
                                 RMul[sc[2], Hundredths(w.experience_level)]],
                            RAdd[RMul[sc[3], Hundredths(w.salary_fit)],
                                 RMul[sc[4], Hundredths(w.location_match)]]],
                       RAdd[RMul[sc[5], Hundredths(w.title_similarity)],
                            RMul[sc[6], Hundredths(w.recency)]]]],
     components |-> [skills |-> Round100[sc[1]], experience |-> Round100[sc[2]],
                     salary |-> Round100[sc[3]], location |-> Round100[sc[4]],
                     title |-> Round100[sc[5]], recency |-> Round100[sc[6]]],
     weights_used |-> w]

compute_match_score(self_weights, user_profile, job, weights_arg, m, e, emb, today) ==
    Let(_compute_skills_match(Get(user_profile.skills, AbsentList, <<>>),
                              Get(job.description, AbsentStr, <<>>),
                              Get(job.required_skills, AbsentList, <<>>),
                              m, e, emb),
        LAMBDA skills :
    IF skills.raised THEN ScoreRaises(skills.model) ELSE
    Let(_compute_location_match(user_profile.preferred_locations,
                                user_profile.remote_preference,
                                job.location, job.is_remote, skills.model),
        LAMBDA location :
    IF location.raised THEN ScoreRaises(location.model) ELSE
    Let(_compute_title_match(Get(user_profile.target_titles, AbsentList, <<>>),
                             Get(job.title, AbsentStr, <<>>),
                             location.model, e, emb),
        LAMBDA title :
    IF title.raised THEN ScoreRaises(title.model) ELSE
    Let(<<skills.v,
          _compute_experience_match(
              IF user_profile.years_experience = NoInt THEN 0
              ELSE user_profile.years_experience,
              job.min_experience, job.max_experience),
          _compute_salary_match(user_profile.salary_min, user_profile.salary_max,
                                job.salary_min, job.salary_max),
          location.v,
          title.v,
          _compute_recency_score(job.posted_date, today)>>,
        LAMBDA scores :
    ScoreReturns(WeightedScore(WeightsOr(weights_arg, self_weights), scores),
                 scores, title.model)))))

---------------------------------------------------------------------------
(* rank_jobs *)

\* job['match_scores'] = scores; scored_jobs.append(job): the input dict is
\* annotated and appended itself
ScoredInPlace(job, scores) ==
    [entry |-> [job EXCEPT !.match_scores = scores],
     job |-> [job EXCEPT !.match_scores = scores]]

\* scored_jobs.append({**job, 'match_scores': scores}): the dict appended, a
\* new one, and the input dict `job` as the statement leaves it
WithScores(job, scores) ==
    [entry |-> [job EXCEPT !.match_scores = scores], job |-> job]

\* the loop body without the threshold test: every job is appended
KeepAll(job, scores, min_score) ==
    [entries |-> <<[job EXCEPT !.match_scores = scores]>>, job |-> job]

\* lines 331-335: the entries the job adds to scored_jobs, and the input dict
KeepScored(job, scores, min_score) ==
    IF scores.total_score >= min_score
    THEN LET w == WithScores(job, scores) IN [entries |-> <<w.entry>>, job |-> w.job]
    ELSE [entries |-> <<>>, job |-> job]

\* no sort at all: the entries stay in the order they were appended
UnsortedJobs(list) == list

\* a descending sort that is not stable: an entry goes in front of the entries
\* with an equal key
RECURSIVE SortTiesFirst(_)
SortTiesFirst(list) ==
    IF list = <<>> THEN <<>>
    ELSE Let(SortTiesFirst(SubSeq(list, 1, Len(list) - 1)),
             LAMBDA front :
                LET x == list[Len(list)]
                    n == Cardinality(
                           {i \in 1..Len(front) :
                              front[i].match_scores.total_score
                                  > x.match_scores.total_score})
                IN  SubSeq(front, 1, n) \o <<x>> \o SubSeq(front, n + 1, Len(front)))

\* list.sort(key=total_score, reverse=True): stable, so an entry goes behind
\* every entry whose key is not smaller
RECURSIVE SortByTotalDesc(_)
SortByTotalDesc(list) ==
    IF list = <<>> THEN <<>>
    ELSE Let(SortByTotalDesc(SubSeq(list, 1, Len(list) - 1)),
             LAMBDA front :
                LET x == list[Len(list)]
                    n == Cardinality(
                           {i \in 1..Len(front) :
                              front[i].match_scores.total_score
                                  >= x.match_scores.total_score})
                IN  SubSeq(front, 1, n) \o <<x>> \o SubSeq(front, n + 1, Len(front)))

\* a call's outcome: the list returned or an exception; the caller's jobs list
\* after the call; the scores computed at line 330, one per job scored; and
\* _model after the call
RankReturns(list, joblist, computed, m) ==
    [raised |-> FALSE, ranked |-> list, jobs |-> joblist, computed |-> computed,
     model |-> m]

RankRaises(joblist, computed, m) ==
    [raised |-> TRUE, ranked |-> <<>>, jobs |-> joblist, computed |-> computed,
     model |-> m]

\* the loop of rank_jobs from job i on, and the sort after it
RECURSIVE RankLoop(_, _, _, _, _, _, _, _, _, _, _)
RankLoop(self_weights, user_profile, joblist, min_score, env, emb, today, i, scored_jobs, computed, m) ==
    IF i > Len(joblist)
    THEN RankReturns(SortByTotalDesc(scored_jobs), joblist, computed, m)
    ELSE Let(compute_match_score(self_weights, user_profile, joblist[i], NoWeights,
                                 m, env, emb, today),
             LAMBDA r :
                IF r.raised THEN RankRaises(joblist, computed, r.model)
                ELSE Let(KeepScored(joblist[i], r.scores, min_score),
                         LAMBDA k :
                            RankLoop(self_weights, user_profile,
                                     [joblist EXCEPT ![i] = k.job],
                                     min_score, env, emb, today, i + 1,
                                     scored_jobs \o k.entries,
                                     Append(computed, r.scores), r.model)))

rank_jobs(self_weights, user_profile, joblist, min_score, m, env, emb, today) ==
    RankLoop(self_weights, user_profile, joblist, min_score, env, emb, today, 1,
             <<>>, <<>>, m)

---------------------------------------------------------------------------
(* The inputs the calls are made with *)

Py == <<"P", "y">>

Aw == <<"A", "w">>

Dk == <<"D", "k">>

Dev == <<"D", "e", "v">>

SrDev == <<"S", "r", " ", "D", "e", "v">>

Date(kind, day, frac) == [kind |-> kind, day |-> day, frac |-> frac]

NoDate == Date("absent", 0, 0)

\* {}: no key at all
EmptyProfile ==
    [skills |-> AbsentList, years_experience |-> NoInt,
     salary_min |-> NoInt, salary_max |-> NoInt,
     preferred_locations |-> AbsentList, remote_preference |-> "Absent",
     target_titles |-> AbsentList]

EmptyJob ==
    [title |-> AbsentStr, description |-> AbsentStr, required_skills |-> AbsentList,
     preferred_skills |-> AbsentList,
     min_experience |-> NoInt, max_experience |-> NoInt,
     salary_min |-> NoInt, salary_max |-> NoInt,
     location |-> AbsentStr, is_remote |-> "Absent", posted_date |-> NoDate,
     match_scores |-> NoScore]

\* the candidate and the job of the full pipeline scenario
Candidate ==
    [EmptyProfile EXCEPT !.skills = <<Py, Aw, Dk>>, !.years_experience = 5,
                         !.salary_min = 120000, !.salary_max = 160000,
                         !.remote_preference = "remote", !.target_titles = <<Dev>>]

DevJob ==
    [EmptyJob EXCEPT !.title = Dev, !.required_skills = <<Py, Aw>>,
                     !.min_experience = 3, !.max_experience = 7,
                     !.salary_min = 110000, !.salary_max = 150000,
                     !.is_remote = "True", !.posted_date = Date("date", -3, 0)]

\* another posting of the same job: every component scores as DevJob's does
SrDevJob == [DevJob EXCEPT !.title = SrDev]

\* a poor fit: on site, paid too little, asking for more experience, old
PoorJob ==
    [EmptyJob EXCEPT !.title = <<"Q", "a">>, !.description = <<"s", "a", "p">>,
                     !.min_experience = 10, !.max_experience = 15,
                     !.salary_min = 50000, !.salary_max = 60000,
                     !.location = <<"S", "d">>, !.is_remote = "False",
                     !.posted_date = Date("datetime", -40, 0)]

\* a posting whose description key holds None
NoneDescriptionJob == [DevJob EXCEPT !.description = NoneStr]

Profiles == {Candidate, EmptyProfile}

\* the job lists of a caller who scores single jobs and ranks short lists
CallJobLists ==
    {<<j>> : j \in {DevJob, SrDevJob, PoorJob, NoneDescriptionJob}}
        \cup {<<PoorJob, DevJob>>, <<DevJob, NoneDescriptionJob>>}

JobPool == {DevJob, SrDevJob, PoorJob, NoneDescriptionJob}

MaxJobs == 3

JobLists == UNION {[1..n -> JobPool] : n \in 0..MaxJobs}

MinScores == {0, 60, 101}

\* weights a caller may construct: none, all on skills, and one whose fields
\* sum to 3.0
SkillsOnly == MatchWeights(100, 0, 0, 0, 0, 0)

Overweight == MatchWeights(50, 50, 50, 50, 50, 50)

MaxDays == 1

---------------------------------------------------------------------------
(* Threads inside get_model.  A thread is at a line of get_model or outside  *)
(* it ("idle"); `local` is the object it has constructed and not yet stored, *)
(* `got` what its last get_model call returned, `calls` how many it made.    *)

MaxThreads == 2

MaxCalls == 2

Threads == 1..MaxThreads

NoThreads ==
    [t \in Threads |-> [pc |-> "idle", local |-> NoModel, got |-> NoModel, calls |-> 0]]

---------------------------------------------------------------------------
(* The job fetcher: Redis keys, RateLimiter.acquire and _deduplicate.        *)
(* A Redis key is a record: whether it exists, its value, and whether it     *)
(* carries an expiry.  A job of the fetcher is a dict with id, title and     *)
(* company.                                                                  *)

\* str.isalnum() on one character of the alphabet the inputs are drawn from
IsAlnum(c) == c \notin {" ", "_", "+", "#"}

\* _safe_str(value): None and a missing key give ""
_safe_str(value) == IF value \in {NoneStr, AbsentStr} THEN <<>> ELSE value

\* "".join(c for c in key if c.isalnum())
OnlyAlnum(key) == SelectSeq(key, IsAlnum)

\* lines 666-669: the key _deduplicate files a job under
DedupKey(job) ==
    OnlyAlnum(Lower(_safe_str(job.title)) \o <<"_">> \o Lower(_safe_str(job.company)))

RECURSIVE DedupLoop(_, _, _)
DedupLoop(joblist, seen, unique) ==
    IF joblist = <<>> THEN unique
    ELSE IF DedupKey(Head(joblist)) \notin seen
         THEN DedupLoop(Tail(joblist), seen \cup {DedupKey(Head(joblist))},
                        Append(unique, Head(joblist)))
         ELSE DedupLoop(Tail(joblist), seen, unique)

_deduplicate(joblist) == DedupLoop(joblist, {}, <<>>)

\* a key that does not exist
NoKey == [exists |-> FALSE, value |-> 0, ttl |-> FALSE]

\* requests_per_period of the sources modelled: the token counts of
\* RATE_LIMITS, 50 to 3600, scaled down
MaxRequests == 2

\* redis.setex(key, config.period_seconds, config.requests_per_period - 1)
SetexBucket == [exists |-> TRUE, value |-> MaxRequests - 1, ttl |-> TRUE]

\* redis.decr(key): a key that does not exist is created at 0, without an
\* expiry, and then decremented
Decr(key) ==
    IF key.exists THEN [key EXCEPT !.value = @ - 1]
    ELSE [exists |-> TRUE, value |-> -1, ttl |-> FALSE]

\* lines 160-170 of acquire, for `current` as line 158 read it and the bucket
\* key as it is now: the value returned and the key afterwards.  `current` is
\* the key as read: not existing stands for None.
AcquireWrite(current, key) ==
    IF ~current.exists THEN [ok |-> TRUE, key |-> SetexBucket]
    ELSE IF current.value > 0 THEN [ok |-> TRUE, key |-> Decr(key)]
    ELSE [ok |-> FALSE, key |-> key]

\* acquire(source) run without another Redis client in between
acquire(key) == AcquireWrite(key, key)

\* the sources fetch_jobs is called with, in order
Sources == <<"jobspy", "usajobs">>

SourceSet == {Sources[i] : i \in 1..Len(Sources)}

\* the source whose bucket the coroutines of SpecLimit compete for
Usajobs == "usajobs"

FetchedJob(id, title, company) == [id |-> id, title |-> title, company |-> company]

\* what _fetch_from_source does for one source: raises, or returns a list
FetchRaises == [raised |-> TRUE, jobs |-> <<>>]

FetchReturns(list) == [raised |-> FALSE, jobs |-> list]

\* lines 227-236: the loop over the sources from source i on; outcomes[i] is
\* what source i does if it is asked.  The result holds all_jobs, the bucket
\* keys, and whether every source so far was rate limited or raised.
RECURSIVE FetchLoop(_, _, _, _, _)
FetchLoop(i, outcomes, buckets, all_jobs, all_failed) ==
    IF i > Len(Sources)
    THEN [all_jobs |-> all_jobs, buckets |-> buckets, all_failed |-> all_failed]
    ELSE Let(acquire(buckets[Sources[i]]),
             LAMBDA a :
         IF ~a.ok
         THEN FetchLoop(i + 1, outcomes, [buckets EXCEPT ![Sources[i]] = a.key],
                        all_jobs, all_failed)
         ELSE IF outcomes[i].raised
         THEN FetchLoop(i + 1, outcomes, [buckets EXCEPT ![Sources[i]] = a.key],
                        all_jobs, all_failed)
         ELSE FetchLoop(i + 1, outcomes, [buckets EXCEPT ![Sources[i]] = a.key],
                        all_jobs \o outcomes[i].jobs, FALSE))

\* redis.setex(cache_key, self.cache_ttl, json.dumps(deduped))
SetexCache(deduped) == [exists |-> TRUE, value |-> deduped, ttl |-> TRUE]

\* fetch_jobs(keywords, location, sources) of a fetcher with a Redis client,
\* DEMO_MODE off: the list returned, the keys afterwards, whether the cache
\* answered, and whether every source was rate limited or raised
fetch_jobs(r, outcomes) ==
    IF r.jobs.exists                     \* a cached string is never empty
    THEN [result |-> r.jobs.value, redis |-> r, hit |-> TRUE, all_failed |-> FALSE]
    ELSE Let(FetchLoop(1, outcomes, r.ratelimit, <<>>, TRUE),
             LAMBDA f :
         Let(_deduplicate(f.all_jobs),
             LAMBDA deduped :
         [result |-> deduped,
          redis |-> [ratelimit |-> f.buckets,
                     jobs |-> IF deduped # <<>> THEN SetexCache(deduped) ELSE r.jobs],
          hit |-> FALSE, all_failed |-> f.all_failed]))

\* asyncio tasks calling the rate limiter
MaxTasks == 2

Tasks == 1..MaxTasks

\* max_wait of wait_and_acquire, in seconds: the default of 60 scaled down
MaxWait == 3

\* a task is outside the limiter ("idle"), before line 158, before line 160
\* with `current` read, or asleep at line 181; `waiting` says that it is
\* inside wait_and_acquire, `returned` what its last call returned
NoTasks ==
    [t \in Tasks |-> [pc |-> "idle", current |-> NoKey, waiting |-> FALSE,
                      wait_time |-> 1, total_waited |-> 0, returned |-> "none"]]

NoReply == [op |-> "none", jobs |-> <<>>, result |-> <<>>, hit |-> FALSE,
            all_failed |-> FALSE, calls |-> 0]

NoRedis == [ratelimit |-> [s \in SourceSet |-> NoKey], jobs |-> NoKey]

\* a process that has not used the job fetcher
FetcherIdle ==
    /\ redis = NoRedis
    /\ tasks = NoTasks
    /\ granted = [s \in SourceSet |-> 0]
    /\ stale = <<>>
    /\ reply = NoReply

---------------------------------------------------------------------------
(* The calls *)

NoCall ==
    [op |-> "none", job |-> 0, weights_arg |-> NoWeights, self_weights |-> NoWeights,
     min_score |-> 0, env |-> "none", raised |-> FALSE, scores |-> NoScore, raw |-> <<>>,
     ranked |-> <<>>, computed |-> <<>>]

\* JobMatcher(w); what an earlier matcher returned is dropped
NewJobMatcher(w) ==
    /\ weights' = WeightsOr(w, default_weights)
    /\ out' = NoCall
    /\ UNCHANGED <<model, now, embedding, default_weights, profile, jobs, loads,
                   threads>>
    /\ UNCHANGED fetcher_vars

\* matcher.compute_match_score(profile, jobs[k], w)
ComputeMatchScore(k, w, e) ==
    /\ k \in 1..Len(jobs)
    /\ \E r \in {compute_match_score(weights, profile, jobs[k], w, model, e,
                                     embedding, now)} :
           /\ model' = r.model
           /\ loads' = LoadsAfter(loads, model, r.model)
           /\ out' = [op |-> "score", job |-> k, weights_arg |-> w,
                      self_weights |-> weights, min_score |-> 0, env |-> e,
                      raised |-> r.raised,
                      scores |-> r.scores, raw |-> r.raw, ranked |-> <<>>,
                      computed |-> <<>>]
    /\ UNCHANGED <<now, embedding, default_weights, weights, profile, jobs, threads>>
    /\ UNCHANGED fetcher_vars

\* matcher.rank_jobs(profile, jobs, min_score)
RankJobs(min_score, e) ==
    /\ \E r \in {rank_jobs(weights, profile, jobs, min_score, model, e,
                           embedding, now)} :
           /\ model' = r.model
           /\ loads' = LoadsAfter(loads, model, r.model)
           /\ jobs' = r.jobs
           /\ out' = [op |-> "rank", job |-> 0, weights_arg |-> NoWeights,
                      self_weights |-> weights, min_score |-> min_score,
                      env |-> e, raised |-> r.raised, scores |-> NoScore, raw |-> <<>>,
                      ranked |-> r.ranked, computed |-> r.computed]
    /\ UNCHANGED <<now, embedding, default_weights, weights, profile, threads>>
    /\ UNCHANGED fetcher_vars

\* the clock moves on to the next day
Tick ==
    /\ now < MaxDays
    /\ now' = now + 1
    /\ UNCHANGED <<model, embedding, default_weights, weights, profile, jobs, out,
                   loads, threads>>
    /\ UNCHANGED fetcher_vars

---------------------------------------------------------------------------
(* Spec: one process ranking the caller's job list *)

Init ==
    /\ model = NoModel
    /\ now = 0
    /\ embedding = 3
    /\ default_weights = MatchWeightsDefault
    /\ weights = WeightsOr(NoWeights, default_weights)
    /\ profile \in Profiles
    /\ jobs \in JobLists
    /\ out = NoCall
    /\ loads = 0
    /\ threads = NoThreads
    /\ FetcherIdle

Next ==
    \/ \E w \in {NoWeights, Overweight} : NewJobMatcher(w)
    \/ \E s \in MinScores, e \in EnvOutcomes : RankJobs(s, e)

Spec == Init /\ [][Next]_vars

---------------------------------------------------------------------------
(* SpecCall: one process scoring single jobs and ranking, day after day *)

InitCall ==
    /\ model = NoModel
    /\ now = 0
    /\ embedding \in {0, 3}
    /\ default_weights = MatchWeightsDefault
    /\ weights = WeightsOr(NoWeights, default_weights)
    /\ profile \in Profiles
    /\ jobs \in CallJobLists
    /\ out = NoCall
    /\ loads = 0
    /\ threads = NoThreads
    /\ FetcherIdle

NextCall ==
    \/ \E w \in {NoWeights, Overweight} : NewJobMatcher(w)
    \/ \E k \in 1..Len(jobs), w \in {NoWeights, SkillsOnly}, e \in EnvOutcomes :
           ComputeMatchScore(k, w, e)
    \/ \E s \in MinScores, e \in EnvOutcomes : RankJobs(s, e)
    \/ Tick

SpecCall == InitCall /\ [][NextCall]_vars

---------------------------------------------------------------------------
(* SpecScore: one call of compute_match_score with the default weights, on   *)
(* profiles and jobs that vary the inputs of one scorer at a time            *)

SalaryValues == {NoInt, 0, 50000, 100000, 150000, 600000}

YearValues == {NoInt, 0, 2, 3, 5, 7, 9, 12, 13, 40}

ExperienceValues == {NoInt, 0, 3, 7, 10, 20, 25, 35}

RemotePreferences == {"Absent", "any", "remote", "onsite", "hybrid"}

Austin == <<"A", "u">>

LocationLists == {AbsentList, <<>>, <<Austin>>, <<<<"S", "d">>, Austin>>}

JobLocations == {AbsentStr, <<>>, <<"a", "u", " ", "t", "x">>, <<"S", "d">>}

SkillLists == {<<>>, <<Py>>, <<Py, Aw>>, <<Dk, Aw, Py>>}

Descriptions == {AbsentStr, <<>>, <<" ">>, <<"p", "y">>, <<"p", "y", " ", "d", "k">>}

TitleLists == {<<>>, <<Dev>>, <<SrDev>>, <<<<"Q", "a">>, SrDev>>}

JobTitles == {AbsentStr, NoneStr, <<>>, Dev, SrDev, <<"d", "e">>, <<"Q", "a">>}

PostedDays == {-31, -30, -15, -14, -8, -7, -4, -3, -2, 0, 2}

PostedDates ==
    {NoDate, Date("garbage", 0, 0), Date("aware", 0, 0), Date("offset", 0, 0),
     Date("frac", 0, 6), Date("fracZ", 0, 6)}
        \cup {Date(k, d, 0) : k \in {"date", "datetime", "datetimeZ", "naive"},
                              d \in PostedDays}
        \cup {Date("fracZ", d, 3) : d \in PostedDays}
        \cup {Date("fracZ", -2, f) : f \in {1, 5, 6}}

BaseProfiles == {EmptyProfile, Candidate}

BaseJobs == {EmptyJob, DevJob, PoorJob}

SalaryProfiles ==
    {[Candidate EXCEPT !.salary_min = a, !.salary_max = b] :
        a \in SalaryValues, b \in SalaryValues}

SalaryJobs ==
    {[DevJob EXCEPT !.salary_min = a, !.salary_max = b] :
        a \in SalaryValues, b \in SalaryValues}

ExperienceProfiles == {[Candidate EXCEPT !.years_experience = y] : y \in YearValues}

ExperienceJobs ==
    {[DevJob EXCEPT !.min_experience = a, !.max_experience = b] :
        a \in ExperienceValues, b \in ExperienceValues}

LocationProfiles ==
    {[Candidate EXCEPT !.remote_preference = r, !.preferred_locations = l] :
        r \in RemotePreferences, l \in LocationLists}

LocationJobs ==
    {[DevJob EXCEPT !.location = l, !.is_remote = r] :
        l \in JobLocations, r \in {"Absent", "True", "False"}}

SkillsProfiles == {[Candidate EXCEPT !.skills = sk] : sk \in SkillLists}

SkillsJobs ==
    {[DevJob EXCEPT !.description = d, !.required_skills = rs,
                    !.preferred_skills = ps] :
        d \in Descriptions, rs \in {AbsentList, <<>>, <<Py, Aw>>},
        ps \in {AbsentList, <<Dk>>}}

TitleProfiles == {[Candidate EXCEPT !.target_titles = t] : t \in TitleLists}

\* profiles with target titles and nothing else
TitleOnlyProfiles == {[EmptyProfile EXCEPT !.target_titles = t] : t \in TitleLists}

TitleJobs == {[DevJob EXCEPT !.title = t] : t \in JobTitles}

RecencyJobs == {[DevJob EXCEPT !.posted_date = p] : p \in PostedDates}

\* the (user_profile, job) pairs scored: the inputs of one scorer vary over
\* their whole pool on both sides while the other fields keep a base value
ScoreCases ==
    (BaseProfiles \X BaseJobs)
        \cup ((SalaryProfiles \cup BaseProfiles) \X (SalaryJobs \cup BaseJobs))
        \cup ((ExperienceProfiles \cup BaseProfiles) \X (ExperienceJobs \cup BaseJobs))
        \cup ((LocationProfiles \cup BaseProfiles) \X (LocationJobs \cup BaseJobs))
        \cup ((SkillsProfiles \cup BaseProfiles) \X (SkillsJobs \cup BaseJobs))
        \cup ((TitleProfiles \cup TitleOnlyProfiles \cup BaseProfiles)
                  \X (TitleJobs \cup BaseJobs))
        \cup (BaseProfiles \X RecencyJobs)

InitScore ==
    /\ model = NoModel
    /\ now = 0
    /\ embedding \in Embeddings
    /\ default_weights = MatchWeightsDefault
    /\ weights = WeightsOr(NoWeights, default_weights)
    /\ \E c \in ScoreCases : profile = c[1] /\ jobs = <<c[2]>>
    /\ out = NoCall
    /\ loads = 0
    /\ threads = NoThreads
    /\ FetcherIdle

NextScore == \E e \in EnvOutcomes : ComputeMatchScore(1, NoWeights, e)

SpecScore == InitScore /\ [][NextScore]_vars

---------------------------------------------------------------------------
(* SpecLoad: threads of one process calling get_model, as the scorers do at  *)
(* lines 145 and 267, with one step for each line of get_model               *)

\* a thread enters get_model
Call(t) ==
    /\ threads[t].pc = "idle"
    /\ threads[t].calls < MaxCalls
    /\ threads' = [threads EXCEPT ![t].pc = "17", ![t].calls = @ + 1]
    /\ UNCHANGED <<model, now, embedding, default_weights, weights, profile, jobs,
                   out, loads>>
    /\ UNCHANGED fetcher_vars

\* line 17: if _model is None
Test(t) ==
    /\ threads[t].pc = "17"
    /\ threads' = [threads EXCEPT ![t].pc = IF model = NoModel THEN "18" ELSE "20"]
    /\ UNCHANGED <<model, now, embedding, default_weights, weights, profile, jobs,
                   out, loads>>
    /\ UNCHANGED fetcher_vars

\* line 18 and the right-hand side of line 19: the import and the constructor,
\* which raise and leave get_model, or give a new object
Construct(t, e) ==
    /\ threads[t].pc = "18"
    /\ IF e = "load_raises"
       THEN /\ threads' = [threads EXCEPT ![t].pc = "idle"]
            /\ loads' = loads
       ELSE /\ threads' = [threads EXCEPT ![t].pc = "19",
                                          ![t].local = Instances[loads + 1]]
            /\ loads' = loads + 1
    /\ UNCHANGED <<model, now, embedding, default_weights, weights, profile, jobs, out>>
    /\ UNCHANGED fetcher_vars

\* line 19: the assignment to the global
Store(t) ==
    /\ threads[t].pc = "19"
    /\ model' = threads[t].local
    /\ threads' = [threads EXCEPT ![t].pc = "20", ![t].local = NoModel]
    /\ UNCHANGED <<now, embedding, default_weights, weights, profile, jobs, out, loads>>
    /\ UNCHANGED fetcher_vars

\* line 20: return _model
Return(t) ==
    /\ threads[t].pc = "20"
    /\ threads' = [threads EXCEPT ![t].pc = "idle", ![t].got = model]
    /\ UNCHANGED <<model, now, embedding, default_weights, weights, profile, jobs,
                   out, loads>>
    /\ UNCHANGED fetcher_vars

InitLoad ==
    /\ model = NoModel
    /\ now = 0
    /\ embedding = 0
    /\ default_weights = MatchWeightsDefault
    /\ weights = WeightsOr(NoWeights, default_weights)
    /\ profile = Candidate
    /\ jobs = <<DevJob>>
    /\ out = NoCall
    /\ loads = 0
    /\ threads = NoThreads
    /\ FetcherIdle

NextLoad ==
    \E t \in Threads :
        \/ Call(t)
        \/ Test(t)
        \/ \E e \in {"ok", "load_raises"} : Construct(t, e)
        \/ Store(t)
        \/ Return(t)

SpecLoad == InitLoad /\ [][NextLoad]_vars

---------------------------------------------------------------------------
(* SpecDedup: _deduplicate called on a list of fetched jobs, and once more   *)
(* on what it returned                                                       *)

\* a process that has not used the matcher
MatcherIdle ==
    /\ model = NoModel
    /\ now = 0
    /\ embedding = 0
    /\ default_weights = MatchWeightsDefault
    /\ weights = WeightsOr(NoWeights, default_weights)
    /\ profile = Candidate
    /\ jobs = <<DevJob>>
    /\ out = NoCall
    /\ loads = 0
    /\ threads = NoThreads

\* titles and companies that differ in letter case, in punctuation, or in
\* where the title ends and the company begins
FetchedPool ==
    {FetchedJob(1, Dev, Aw), FetchedJob(2, <<"d", "e", "v">>, <<"a", "w">>),
     FetchedJob(3, Dev, <<"S", "d">>), FetchedJob(4, <<>>, Aw),
     FetchedJob(5, Dev, <<>>), FetchedJob(6, <<>>, <<>>),
     FetchedJob(7, <<"D">>, <<"e", "v">>), FetchedJob(8, <<"D", "+">>, Aw),
     FetchedJob(9, <<"D", "#">>, Aw)}

FetchedLists == UNION {[1..n -> FetchedPool] : n \in 0..MaxJobs}

\* fetcher._deduplicate(jobs), then fetcher._deduplicate of its result
Deduplicate ==
    /\ reply.calls < 2
    /\ \E arg \in {IF reply.calls = 0 THEN reply.jobs ELSE reply.result} :
           reply' = [NoReply EXCEPT !.op = "dedup", !.jobs = arg,
                                    !.result = _deduplicate(arg),
                                    !.calls = reply.calls + 1]
    /\ UNCHANGED <<redis, tasks, granted, stale>>
    /\ UNCHANGED matcher_vars

InitDedup ==
    /\ MatcherIdle
    /\ redis = NoRedis
    /\ tasks = NoTasks
    /\ granted = [s \in SourceSet |-> 0]
    /\ stale = <<>>
    /\ reply \in {[NoReply EXCEPT !.jobs = b] : b \in FetchedLists}

NextDedup == Deduplicate

SpecDedup == InitDedup /\ [][NextDedup]_vars

---------------------------------------------------------------------------
(* SpecLimit: asyncio tasks, or processes sharing the Redis server, calling  *)
(* RateLimiter.acquire and wait_and_acquire for one source.  Every await of  *)
(* a Redis command is a point where another task runs and where the bucket   *)
(* key may expire.                                                           *)

\* the bucket key of source s reaches the end of its period
Expire(s) ==
    /\ redis.ratelimit[s].exists
    /\ redis.ratelimit[s].ttl
    /\ redis' = [redis EXCEPT !.ratelimit[s] = NoKey]
    /\ granted' = [granted EXCEPT ![s] = 0]
    /\ UNCHANGED <<tasks, stale, reply>>
    /\ UNCHANGED matcher_vars

\* a task calls acquire(source)
Acquire(t) ==
    /\ tasks[t].pc = "idle"
    /\ tasks' = [tasks EXCEPT ![t].pc = "158", ![t].waiting = FALSE,
                              ![t].returned = "none"]
    /\ UNCHANGED <<redis, granted, stale, reply>>
    /\ UNCHANGED matcher_vars

\* a task calls wait_and_acquire(source, max_wait): lines 174-178
WaitAndAcquire(t) ==
    /\ tasks[t].pc = "idle"
    /\ tasks' = [tasks EXCEPT ![t].pc = "158", ![t].waiting = TRUE,
                              ![t].wait_time = 1, ![t].total_waited = 0,
                              ![t].returned = "none"]
    /\ UNCHANGED <<redis, granted, stale, reply>>
    /\ UNCHANGED matcher_vars

\* line 158: current = await self.redis.get(key)
GetBucket(t) ==
    /\ tasks[t].pc = "158"
    /\ tasks' = [tasks EXCEPT ![t].pc = "160", ![t].current = redis.ratelimit[Usajobs]]
    /\ UNCHANGED <<redis, granted, stale, reply>>
    /\ UNCHANGED matcher_vars

\* lines 160-170: setex, decr or neither, and the return; inside
\* wait_and_acquire a False leads to the sleep of line 181
WriteBucket(t) ==
    /\ tasks[t].pc = "160"
    /\ \E a \in {AcquireWrite(tasks[t].current, redis.ratelimit[Usajobs])} :
           /\ redis' = [redis EXCEPT !.ratelimit[Usajobs] = a.key]
           /\ granted' = [granted EXCEPT ![Usajobs] = IF a.ok THEN @ + 1 ELSE @]
           /\ tasks' = [tasks EXCEPT
                  ![t].pc = IF ~a.ok /\ tasks[t].waiting THEN "181" ELSE "idle",
                  ![t].returned = IF a.ok THEN "True"
                                  ELSE IF tasks[t].waiting THEN "none" ELSE "False"]
    /\ UNCHANGED <<stale, reply>>
    /\ UNCHANGED matcher_vars

\* lines 181-183 and the loop test of line 177
Sleep(t) ==
    /\ tasks[t].pc = "181"
    /\ \E waited \in {tasks[t].total_waited + tasks[t].wait_time} :
           tasks' = [tasks EXCEPT
               ![t].total_waited = waited,
               ![t].wait_time = IF 2 * @ <= 30 THEN 2 * @ ELSE 30,
               ![t].pc = IF waited < MaxWait THEN "158" ELSE "idle",
               ![t].returned = IF waited < MaxWait THEN "none" ELSE "False"]
    /\ UNCHANGED <<redis, granted, stale, reply>>
    /\ UNCHANGED matcher_vars

InitLimit ==
    /\ MatcherIdle
    /\ FetcherIdle

NextLimit ==
    \/ Expire(Usajobs)
    \/ \E t \in Tasks :
           \/ Acquire(t)
           \/ WaitAndAcquire(t)
           \/ GetBucket(t)
           \/ WriteBucket(t)
           \/ Sleep(t)

SpecLimit == InitLimit /\ [][NextLimit]_vars

---------------------------------------------------------------------------
(* SpecFetch: one fetcher with a Redis client answering the same query again *)
(* and again, while the sources work or fail and the keys expire             *)

\* what a source may do when asked
SourceOutcomes ==
    {FetchRaises, FetchReturns(<<>>), FetchReturns(<<FetchedJob(1, Dev, Aw)>>),
     FetchReturns(<<FetchedJob(2, <<"d", "e", "v">>, <<"a", "w">>)>>),
     FetchReturns(<<FetchedJob(3, Dev, <<"S", "d">>)>>)}

\* the calls of fetch_jobs a behaviour holds at most
MaxFetches == 3

\* await fetcher.fetch_jobs(keywords, location, sources)
FetchJobs(outcomes) ==
    /\ reply.calls < MaxFetches
    /\ \E f \in {fetch_jobs(redis, outcomes)} :
           /\ redis' = f.redis
           /\ granted' = [s \in SourceSet |->
                             IF f.redis.ratelimit[s] # redis.ratelimit[s]
                             THEN granted[s] + 1 ELSE granted[s]]
           /\ stale' = IF ~f.hit /\ f.result # <<>> THEN f.result ELSE stale
           /\ reply' = [op |-> "fetch", jobs |-> <<>>, result |-> f.result,
                        hit |-> f.hit, all_failed |-> f.all_failed,
                        calls |-> reply.calls + 1]
    /\ UNCHANGED tasks
    /\ UNCHANGED matcher_vars

\* the cache entry reaches the end of cache_ttl
ExpireCache ==
    /\ redis.jobs.exists
    /\ redis' = [redis EXCEPT !.jobs = NoKey]
    /\ UNCHANGED <<tasks, granted, stale, reply>>
    /\ UNCHANGED matcher_vars

InitFetch ==
    /\ MatcherIdle
    /\ FetcherIdle

NextFetch ==
    \/ \E outcomes \in [1..Len(Sources) -> SourceOutcomes] : FetchJobs(outcomes)
    \/ ExpireCache
    \/ \E s \in SourceSet : Expire(s)

SpecFetch == InitFetch /\ [][NextFetch]_vars

---------------------------------------------------------------------------
(* Properties *)

Ranked == out.op = "rank" /\ ~out.raised

Scored == out.op = "score" /\ ~out.raised

Total(j) == j.match_scores.total_score

\* the input jobs of the last rank_jobs call, each with the scores computed
\* for it, in input order
InputEntries == [i \in 1..Len(jobs) |-> [jobs[i] EXCEPT !.match_scores = out.computed[i]]]

Count(list, x) == Cardinality({i \in 1..Len(list) : list[i] = x})

Range(list) == {list[i] : i \in 1..Len(list)}

\* C1: the list rank_jobs returns is sorted by match_scores.total_score in
\* descending order: of two adjacent results the first has a total_score at
\* least that of the second.
C1_SortedDescending ==
    Ranked =>
        \A i \in 1..(Len(out.ranked) - 1) :
            Total(out.ranked[i]) >= Total(out.ranked[i + 1])

\* a ranking whose last entry is the first input job, below a better one
C1_Witness ==
    /\ Ranked
    /\ Len(out.ranked) >= 2
    /\ out.ranked[Len(out.ranked)] = InputEntries[1]
    /\ Total(out.ranked[1]) > Total(out.ranked[Len(out.ranked)])

\* C2: rank_jobs sorts stably: the results that share a total_score are, in
\* this order, the input jobs kept with that total_score in input order.
C2_StableTies ==
    Ranked =>
        \A t \in {Total(x) : x \in Range(out.ranked) \cup Range(InputEntries)} :
            SelectSeq(out.ranked, LAMBDA x : Total(x) = t)
                = SelectSeq(InputEntries,
                            LAMBDA x : Total(x) = t /\ Total(x) >= out.min_score)

\* two different jobs with the same total_score, next to each other in the result
C2_Witness ==
    /\ Ranked
    /\ \E i \in 1..(Len(out.ranked) - 1) :
           /\ Total(out.ranked[i]) = Total(out.ranked[i + 1])
           /\ out.ranked[i] # out.ranked[i + 1]

\* C3: rank_jobs returns exactly the input jobs whose total_score is at least
\* min_score: no result is below min_score, every input job at or above it is
\* in the result as often as in the input and no job below it is, and with
\* min_score = 0 the result is as long as the input.
C3_FilterExact ==
    Ranked =>
        /\ \A i \in 1..Len(out.ranked) : Total(out.ranked[i]) >= out.min_score
        /\ \A x \in Range(out.ranked) \cup Range(InputEntries) :
               Count(out.ranked, x)
                   = IF Total(x) >= out.min_score THEN Count(InputEntries, x) ELSE 0
        /\ out.min_score = 0 => Len(out.ranked) = Len(jobs)

\* a ranking that keeps some jobs of the input and drops others
C3_Witness ==
    /\ Ranked
    /\ out.min_score > 0
    /\ Len(out.ranked) > 0
    /\ Len(out.ranked) < Len(jobs)

\* C4: for a profile and a job whose numeric fields are absent or non-negative
\* integers, a compute_match_score call with the default weights that returns
\* gives a total_score in 0..100 and six components in 0..100, and each of the
\* six scorers returned a value in [0, 1].
C4_ScoreBounds ==
    Scored /\ out.scores.weights_used = MatchWeights(35, 20, 15, 15, 10, 5) =>
        /\ out.scores.total_score \in 0..100
        /\ \A k \in DOMAIN out.scores.components : out.scores.components[k] \in 0..100
        /\ \A i \in 1..Len(out.raw) : RLeq[Zero, out.raw[i]] /\ RLeq[out.raw[i], One]

\* a call in which every scorer returns 1.0
C4_Witness ==
    /\ Scored
    /\ out.scores.weights_used = MatchWeights(35, 20, 15, 15, 10, 5)
    /\ out.scores.total_score = 100

\* C5: two compute_match_score calls with the same profile, job and weights
\* return the same MatchScore, wherever in a sequence of calls they are made.
C5_SameInputsSameScore ==
    [][(/\ out.op = "score" /\ ~out.raised
        /\ out'.op = "score" /\ ~out'.raised
        /\ out'.job = out.job
        /\ out'.weights_arg = out.weights_arg
        /\ out'.self_weights = out.self_weights
        /\ profile' = profile
        /\ jobs' = jobs)
            => out'.scores = out.scores]_vars

\* C6: rank_jobs does not raise, whatever job is in the batch.
C6_RankNeverRaises == out.op = "rank" => ~out.raised

\* C7: a call of rank_jobs or compute_match_score leaves the profile, the jobs
\* list and every job in it, the matcher's weights and DEFAULT_WEIGHTS as they
\* were; no input job holds a match_scores key after it.
C7_NoSideEffects ==
    [][(out'.op \in {"score", "rank"} /\ (out' # out \/ model' # model \/ jobs' # jobs))
            => /\ profile' = profile
               /\ jobs' = jobs
               /\ \A i \in 1..Len(jobs') : jobs'[i].match_scores = NoScore
               /\ weights' = weights
               /\ default_weights' = default_weights]_vars

\* a ranking that returned annotated jobs while the input jobs hold no scores
C7_Witness ==
    /\ Ranked
    /\ Len(out.ranked) = Len(jobs)
    /\ Len(jobs) >= 2
    /\ \A i \in 1..Len(out.ranked) : out.ranked[i].match_scores # NoScore
    /\ \A i \in 1..Len(jobs) : jobs[i].match_scores = NoScore

\* C8: a compute_match_score call that returns has evaluated the six scorers;
\* components holds exactly the six keys, each round(score * 100); total_score
\* is round(100 * sum of score * weight); weights_used is the weights argument
\* of the call when one was given and the matcher's weights otherwise.
C8_Aggregation ==
    Scored =>
        LET w == IF out.weights_arg # NoWeights THEN out.weights_arg
                 ELSE out.self_weights
            sc == out.raw
            c == out.scores.components
            Part(i, wi) == Rat[sc[i][1] * wi, sc[i][2]]
        IN  /\ Len(sc) = 6
            /\ DOMAIN c = {"skills", "experience", "salary", "location", "title",
                           "recency"}
            /\ c.skills = Round[<<100 * sc[1][1], sc[1][2]>>]
            /\ c.experience = Round[<<100 * sc[2][1], sc[2][2]>>]
            /\ c.salary = Round[<<100 * sc[3][1], sc[3][2]>>]
            /\ c.location = Round[<<100 * sc[4][1], sc[4][2]>>]
            /\ c.title = Round[<<100 * sc[5][1], sc[5][2]>>]
            /\ c.recency = Round[<<100 * sc[6][1], sc[6][2]>>]
            /\ out.scores.weights_used = w
            /\ out.scores.total_score
                   = Round[RAdd[RAdd[RAdd[Part(1, w.skills_semantic),
                                          Part(2, w.experience_level)],
                                     RAdd[Part(3, w.salary_fit),
                                          Part(4, w.location_match)]],
                                RAdd[Part(5, w.title_similarity),
                                     Part(6, w.recency)]]]

\* a call given weights that differ from the matcher's own
C8_Witness ==
    /\ Scored
    /\ out.weights_arg = SkillsOnly
    /\ out.self_weights = Overweight
    /\ out.scores.weights_used = SkillsOnly
    /\ out.scores.total_score = out.scores.components.skills

\* C9: DEFAULT_WEIGHTS is skills 0.35, experience 0.20, salary 0.15, location
\* 0.15, title 0.10, recency 0.05, and the six sum to 1.0 within 0.01.
C9_DefaultWeights ==
    /\ default_weights.skills_semantic = 35
    /\ default_weights.experience_level = 20
    /\ default_weights.salary_fit = 15
    /\ default_weights.location_match = 15
    /\ default_weights.title_similarity = 10
    /\ default_weights.recency = 5
    /\ WeightSum(default_weights) \in 99..101

\* a score computed by a matcher built without weights, with the defaults
C9_Witness ==
    /\ Scored
    /\ out.weights_arg = NoWeights
    /\ out.self_weights = default_weights
    /\ out.scores.weights_used = default_weights
    /\ WeightSum(out.scores.weights_used) = 100

\* C10: no score is computed with weights whose six fields sum to something
\* other than 1.0 within 0.01.
C10_InvalidWeightsNeverUsed ==
    Scored => WeightSum(out.scores.weights_used) \in 99..101

\* the job text the skills scorer builds for the job of the last scoring call
JobText ==
    LET job == jobs[out.job]
        description == Get(job.description, AbsentStr, <<>>)
        required_skills == Get(job.required_skills, AbsentList, <<>>)
    IN  IF required_skills # <<>>
        THEN description \o <<" ">> \o Join(required_skills)
        ELSE description

\* the embedding path was not available to the last call: the load failed,
\* encode raised, or the cosine came out as nan
Unavailable ==
    \/ out.env \in {"encode_raises", "zero_norm"}
    \/ out.env = "load_raises" /\ model = NoModel

\* C11: when the embedding path is unavailable, a scoring call for a profile
\* with skills and a job with a non-blank text does not raise and its skills
\* score is the keyword score of the same skills and job text.
C11_FallbackToKeyword ==
    (/\ out.op = "score"
     /\ Get(profile.skills, AbsentList, <<>>) # <<>>
     /\ jobs[out.job].description # NoneStr
     /\ ~IsBlank(JobText)
     /\ Unavailable)
        => /\ ~out.raised
           /\ out.raw[1] = _keyword_match(profile.skills, JobText)

\* C12: in every interleaving of get_model calls the SentenceTransformer is
\* constructed at most once, and all calls that have returned a model
\* returned the same object.
C12_LoadedOnce ==
    /\ loads <= 1
    /\ \A t \in Threads, u \in Threads :
           threads[t].got # NoModel /\ threads[u].got # NoModel
               => threads[t].got = threads[u].got

\* the profile and the job of the last scoring call
ScoredJob == jobs[out.job]

NoList(l) == l \in {AbsentList, <<>>}

NoText(t) == t \in {AbsentStr, NoneStr, <<>>}

C14_InRangePerfect ==
    (/\ Scored
     /\ profile.years_experience # NoInt
     /\ ScoredJob.min_experience # NoInt
     /\ ScoredJob.max_experience # NoInt
     /\ ScoredJob.min_experience <= profile.years_experience
     /\ profile.years_experience <= ScoredJob.max_experience)
        => out.raw[2] = One

\* a candidate whose years equal the job's upper bound, above its lower bound
C14_Witness ==
    /\ Scored
    /\ ScoredJob.min_experience # NoInt
    /\ ScoredJob.min_experience < profile.years_experience
    /\ profile.years_experience = ScoredJob.max_experience
    /\ out.raw[2] = One

\* the candidate's years of the last scoring call, none counting as 0
CandidateYears ==
    IF profile.years_experience = NoInt THEN 0 ELSE profile.years_experience

\* C15: for a candidate with fewer years than the job's stated minimum (no
\* years counting as 0) the experience score is max(0.2, 1.0 - 0.15 * gap),
\* gap = job_min - years: below 1.0, at least 0.2, and no candidate with
\* fewer years scores higher against the same job.
C15_UnderQualified ==
    (/\ Scored
     /\ ScoredJob.min_experience # NoInt
     /\ CandidateYears < ScoredJob.min_experience)
        => LET gap == ScoredJob.min_experience - CandidateYears
               floor == Rat[2, 10]
               linear == <<100 - 15 * gap, 100>>
           IN  /\ out.raw[2] = IF RLeq[floor, linear] THEN Rat[linear[1], linear[2]]
                               ELSE floor
               /\ out.raw[2] # One /\ RLeq[out.raw[2], One]
               /\ RLeq[floor, out.raw[2]]
               /\ \A fewer \in 0..CandidateYears :
                      RLeq[_compute_experience_match(fewer, ScoredJob.min_experience,
                                                     ScoredJob.max_experience),
                           out.raw[2]]

\* a candidate with no years against a job asking for 20 to 25: the floor
C15_Witness ==
    /\ Scored
    /\ profile.years_experience = NoInt
    /\ ScoredJob.min_experience = 20
    /\ ScoredJob.max_experience = 25
    /\ out.raw[2] = Rat[2, 10]

\* a candidate two years short of the minimum, above the floor
C15_WitnessLinear ==
    /\ Scored
    /\ ScoredJob.min_experience - CandidateYears = 2
    /\ out.raw[2] = Rat[7, 10]

\* C16: for a candidate with more years than the job's stated maximum, 0
\* included (the stated minimum, if any, not above the maximum), the
\* experience score is 0.8 for a gap of at most 3 years, 0.6 for a gap of at
\* most 5, and 0.5 beyond.
C16_OverQualified ==
    (/\ Scored
     /\ ScoredJob.max_experience # NoInt
     /\ ScoredJob.min_experience <= ScoredJob.max_experience
     /\ CandidateYears > ScoredJob.max_experience)
        => LET gap == CandidateYears - ScoredJob.max_experience
           IN  out.raw[2] = IF gap <= 3 THEN Rat[8, 10]
                            ELSE IF gap <= 5 THEN Rat[6, 10]
                            ELSE Rat[5, 10]

\* a salary bound as stated, an absent one at its default
Stated(x, default) == IF x = NoInt THEN default ELSE x

\* some bound of the candidate and some bound of the job are stated
SalaryStated ==
    /\ profile.salary_min # NoInt \/ profile.salary_max # NoInt
    /\ ScoredJob.salary_min # NoInt \/ ScoredJob.salary_max # NoInt

\* C17: when the candidate's and the job's salary ranges overlap,
\* max(cmin, jmin) <= min(cmax, jmax), the salary score is
\* min(1.0, 0.5 + 0.5 * overlap / max(cmax - cmin, 1)), a value in [0.5, 1.0].
C17_SalaryOverlap ==
    Scored /\ SalaryStated =>
        LET cmin == Stated(profile.salary_min, 0)
            cmax == Stated(profile.salary_max, 500000)
            jmin == Stated(ScoredJob.salary_min, 0)
            jmax == Stated(ScoredJob.salary_max, 500000)
            overlap_start == IF cmin >= jmin THEN cmin ELSE jmin
            overlap_end == IF cmax <= jmax THEN cmax ELSE jmax
            width == IF cmax - cmin >= 1 THEN cmax - cmin ELSE 1
            score == Rat[width + overlap_end - overlap_start, 2 * width]
        IN  overlap_start <= overlap_end =>
                /\ out.raw[3] = IF RLeq[score, One] THEN score ELSE One
                /\ RLeq[Rat[1, 2], out.raw[3]]
                /\ RLeq[out.raw[3], One]

\* C18: when the salary ranges do not overlap, the score is
\* max(0.2, 1.0 - (cmin - jmax) / cmin) if the job's maximum is below the
\* candidate's minimum and 0.5 otherwise, a stated bound (0 included) being
\* used as given and only an absent one at its default of 0 or 500000.
C18_SalaryNoOverlap ==
    Scored /\ SalaryStated =>
        LET cmin == Stated(profile.salary_min, 0)
            cmax == Stated(profile.salary_max, 500000)
            jmin == Stated(ScoredJob.salary_min, 0)
            jmax == Stated(ScoredJob.salary_max, 500000)
            overlap_start == IF cmin >= jmin THEN cmin ELSE jmin
            overlap_end == IF cmax <= jmax THEN cmax ELSE jmax
        IN  overlap_start > overlap_end =>
                out.raw[3] = IF jmax < cmin
                             THEN IF 5 * jmax >= cmin THEN Rat[jmax, cmin] ELSE Rat[2, 10]
                             ELSE Rat[5, 10]

\* some preferred location of the profile is, letter case aside, part of the
\* location of the job scored
LocationListed ==
    \E i \in 1..Len(profile.preferred_locations) :
        Contains(Lower(profile.preferred_locations[i]), Lower(ScoredJob.location))

TitleHit ==
    /\ ~NoList(profile.target_titles)
    /\ ~NoText(ScoredJob.title)
    /\ \E i \in 1..Len(profile.target_titles) :
           \/ Contains(Lower(profile.target_titles[i]), Lower(ScoredJob.title))
           \/ Contains(Lower(ScoredJob.title), Lower(profile.target_titles[i]))

\* C20: when a target title is part of the job's title or the job's title part
\* of a target title, the title score is 1.0 and the title scorer does not
\* call get_model: if the skills scorer has no reason to load the model
\* either, _model is still None after the call and nothing was constructed.
C20_TitleSubstring ==
    Scored /\ TitleHit =>
        /\ out.raw[5] = One
        /\ NoList(profile.skills) \/ IsBlank(JobText) => model = NoModel /\ loads = 0

\* a title hit for a profile without skills, scored while the package works
C20_Witness ==
    /\ Scored
    /\ TitleHit
    /\ NoList(profile.skills)
    /\ out.env = "ok"
    /\ out.raw[5] = One
    /\ model = NoModel

\* the age in whole days of the job of the last scoring call
DaysOld == now - ScoredJob.posted_date.day

\* the score of a posting `age` days old
RecencyBucket(age) ==
    IF age <= 3 THEN One
    ELSE IF age <= 7 THEN Rat[9, 10]
    ELSE IF age <= 14 THEN Rat[7, 10]
    ELSE IF age <= 30 THEN Rat[5, 10]
    ELSE Rat[3, 10]

\* the posted_date of the last scoring call is a date the scorer reads: a
\* string in one of the first three formats, or with one to five fractional
\* digits and a Z, or a datetime without tzinfo
DateRead ==
    \/ ScoredJob.posted_date.kind \in {"date", "datetime", "datetimeZ", "naive"}
    \/ ScoredJob.posted_date.kind = "fracZ" /\ ScoredJob.posted_date.frac \in 1..5

\* C21: the recency score of a posting whose date is read depends on its age
\* in whole days only: 1.0 up to 3 days, future dates included, 0.9 up to 7,
\* 0.7 up to 14, 0.5 up to 30 and 0.3 beyond, which never increases with age;
\* an absent posted_date and a string that is no date score 0.5; and whatever
\* the posted_date, the call does not raise.
C21_RecencyBuckets ==
    Scored =>
        /\ ~out.raised
        /\ DateRead => out.raw[6] = RecencyBucket(DaysOld)
        /\ ScoredJob.posted_date.kind \in {"absent", "garbage"} => out.raw[6] = Rat[1, 2]
        /\ \A a \in PostedDays, b \in PostedDays :
               a <= b => RLeq[RecencyBucket(-a), RecencyBucket(-b)]

\* a posting dated two days ahead scores 1.0
C21_Witness ==
    /\ Scored
    /\ ScoredJob.posted_date.kind = "datetimeZ"
    /\ DaysOld = -2
    /\ out.raw[6] = One

\* the last call scored the candidate of the full pipeline scenario against
\* its job, posted two days ago
PipelineScored ==
    /\ Scored
    /\ profile = Candidate
    /\ ScoredJob = [DevJob EXCEPT !.posted_date = ScoredJob.posted_date]
    /\ DateRead
    /\ DaysOld = 2

\* the embedding path raised in the last call: encode raised, or the load
\* did and left _model as None
FellBack ==
    \/ out.env = "encode_raises"
    \/ out.env = "load_raises" /\ model = NoModel

\* the last call took the skills score from the embedding model, and the
\* model's cosine for the candidate's skills and the job text, which share
\* two of three terms, is not negative
EmbeddingAgrees ==
    /\ out.env \in {"ok", "load_raises"}
    /\ model # NoModel
    /\ RLeq[Zero, Similarity(embedding, Join(profile.skills), JobText)]

\* C22: the candidate of the full pipeline scenario scored against its job:
\* total_score is at least 80, components.title is 100 and components.recency
\* is 100, both when the skills score comes from the embedding model and when
\* it comes from the keyword fallback.
C22_FullPipeline ==
    PipelineScored /\ (FellBack \/ EmbeddingAgrees) =>
        /\ ~out.raised
        /\ out.scores.total_score >= 80
        /\ out.scores.components.title = 100
        /\ out.scores.components.recency = 100

\* the scenario scored with the keyword fallback: two of three skills found
C22_Witness ==
    /\ PipelineScored
    /\ FellBack
    /\ out.raw[1] = Rat[23, 30]
    /\ out.scores.total_score = 90

\* C24: when the profile has target titles, the job a title, no target title
\* is part of the job's title nor the job's title part of one, and the
\* embedding path raises, the call does not raise and the title score is the
\* keyword score of the target titles against the job's title.
C24_TitleFallsBackToKeyword ==
    (/\ Scored
     /\ ~NoList(profile.target_titles)
     /\ ~NoText(ScoredJob.title)
     /\ ~TitleHit
     /\ FellBack)
        => /\ ~out.raised
           /\ out.raw[5] = _keyword_match(profile.target_titles, ScoredJob.title)

\* the posted_date of the last scoring call is a string in one of the four
\* formats of the scorer's list, with one to six fractional digits in the last
DateAccepted ==
    \/ ScoredJob.posted_date.kind \in {"date", "datetime", "datetimeZ"}
    \/ ScoredJob.posted_date.kind = "fracZ" /\ ScoredJob.posted_date.frac \in 1..6

\* C25: a posted_date string in any of the four accepted forms, the one with
\* up to six fractional digits and a trailing Z included, is parsed after the
\* cut to 26 characters and scored by the bucket of its age, not as an
\* unparsable date.
C25_IsoFormsParsed ==
    Scored /\ DateAccepted => out.raw[6] = RecencyBucket(DaysOld)

\* the candidate's skills, and how many of them are, letter case aside, part
\* of the job text of the last scoring call, whatever their order
SkillCount == Len(profile.skills)

SkillsFound ==
    Cardinality({i \in 1..SkillCount : Contains(Lower(profile.skills[i]), Lower(JobText))})

\* 0.3 + 0.7 * m / n, at most 1.0
KeywordScore(m, n) == RMin[One, RAdd[Rat[3, 10], RMul[Rat[7, 10], Rat[m, n]]]]

\* the last call took the skills score of a candidate with skills and of a
\* job with a text from the keyword fallback
KeywordMode ==
    /\ Scored
    /\ ~NoList(profile.skills)
    /\ ~IsBlank(JobText)
    /\ FellBack

\* C26: in keyword fallback mode, with n > 0 skills of which m are, letter
\* case aside, part of the job text (description and required skills), the
\* skills score is min(1.0, 0.3 + 0.7 * m / n): 0.3 for m = 0, 1.0 for m = n,
\* more for every further match, the same for the skills in any order and
\* whatever the job's preferred_skills.
C26_KeywordFormula ==
    KeywordMode =>
        /\ out.raw[1] = KeywordScore(SkillsFound, SkillCount)
        /\ SkillsFound = 0 => out.raw[1] = Rat[3, 10]
        /\ SkillsFound = SkillCount => out.raw[1] = One
        /\ \A m \in 1..SkillCount :
               /\ RLeq[KeywordScore(m - 1, SkillCount), KeywordScore(m, SkillCount)]
               /\ KeywordScore(m - 1, SkillCount) # KeywordScore(m, SkillCount)

\* three skills in another order than the job names them, two found in a job
\* text in lower case, the third only among the preferred skills
C26_Witness ==
    /\ KeywordMode
    /\ profile.skills = <<Dk, Aw, Py>>
    /\ ScoredJob.preferred_skills = <<Dk>>
    /\ ScoredJob.description = <<"p", "y">>
    /\ SkillsFound = 2
    /\ out.raw[1] = Rat[23, 30]

\* the candidate's and the job's salary ranges of the last scoring call, as
\* stated, have no point in common
SalaryApart ==
    /\ Scored
    /\ SalaryStated
    /\ LET cmin == Stated(profile.salary_min, 0)
           cmax == Stated(profile.salary_max, 500000)
           jmin == Stated(ScoredJob.salary_min, 0)
           jmax == Stated(ScoredJob.salary_max, 500000)
       IN  (IF cmin >= jmin THEN cmin ELSE jmin) > (IF cmax <= jmax THEN cmax ELSE jmax)

SamePair(a, b) ==
    /\ Lower(_safe_str(a.title)) = Lower(_safe_str(b.title))
    /\ Lower(_safe_str(a.company)) = Lower(_safe_str(b.company))

\* the jobs of a list that no earlier job of the list is the same pair as, in
\* the order of the list
RECURSIVE FirstOccurrences(_, _)
FirstOccurrences(list, n) ==
    IF n = 0 THEN <<>>
    ELSE IF \E j \in 1..(n - 1) : SamePair(list[j], list[n])
         THEN FirstOccurrences(list, n - 1)
         ELSE Append(FirstOccurrences(list, n - 1), list[n])

\* C28: _deduplicate returns, in input order, exactly the jobs that no earlier
\* job of the input has the same title and the same company as, letter case
\* aside; jobs that differ in title or in company are all kept, an empty title
\* or company included; and _deduplicate of its result is that result.
C28_DeduplicateFirstOccurrences ==
    reply.op = "dedup" =>
        /\ reply.result = FirstOccurrences(reply.jobs, Len(reply.jobs))
        /\ reply.calls = 2 => reply.result = reply.jobs

\* C29: in every interleaving of concurrent acquire calls for one source, the
\* calls that returned True since the source's bucket key last expired are at
\* most requests_per_period, and the token count stored is never below 0.
C29_TokensNeverExceeded ==
    /\ granted[Usajobs] <= MaxRequests
    /\ redis.ratelimit[Usajobs].exists => redis.ratelimit[Usajobs].value >= 0

\* C30: the rate limiter never locks a source out for good: in every
\* reachable state the source's bucket key does not exist or carries an
\* expiry, also when the key expires between a caller's read and its
\* decrement, so that after the period a later acquire returns True again and
\* wait_and_acquire returns True once a token is there, and False only after
\* it has waited max_wait seconds or more.
C30_NeverLockedOut ==
    /\ redis.ratelimit[Usajobs].exists => redis.ratelimit[Usajobs].ttl
    /\ \A t \in Tasks :
           tasks[t].waiting /\ tasks[t].returned = "False"
               => tasks[t].total_waited >= MaxWait

\* C23: fetch_jobs outside demo mode returns the cached list of the query when
\* there is one; and when every source is rate limited or raises, it returns
\* the list cached for the query before, expired or not, not an empty list.
C23_CacheThenStale ==
    reply.op = "fetch" =>
        /\ reply.hit => reply.result = stale
        /\ ~reply.hit /\ reply.all_failed /\ stale # <<>> => reply.result = stale

=============================================================================
